---- MODULE Spec2Model ----
(***************************************************************************)
(* Survival-interval pipeline of CRAC_MTTO: failure detection              *)
(* (utils/alerts.py), interval construction (utils/data_processing.py),    *)
(* model training and the cached pipeline entry point (utils/model.py).    *)
(*                                                                         *)
(* Timestamps and durations are whole hours.  A float that may be NaN or   *)
(* None is a sequence: <<>> is NaN/None, <<v>> is the value v.             *)
(* Row and interval positions are 0-based, as in the source.               *)
(***************************************************************************)
EXTENDS Integers, Sequences, FiniteSets, TLC

VARIABLES df, dfColumns, clock, pc, recs, table, fitRaises, trainOut, cache,
          result, description, hasDescCol, rowSeverity, sevThr, isFail, rsf,
          riskThreshold, projDevice, projection, passName, devices, visited,
          session_state, inputUser, inputPass, interface, toast,
          lastEvent,
          crm, crmTime, crmLog, crmReturn

detectVars == <<description, hasDescCol, rowSeverity, sevThr, isFail>>

projVars == <<rsf, riskThreshold, projDevice, projection>>

passVars == <<passName, devices, visited>>

authVars ==
  <<session_state, inputUser, inputPass, interface, toast, lastEvent>>

crmVars == <<crm, crmTime, crmLog, crmReturn>>

vars ==
  <<df, dfColumns, clock, pc, recs, table, fitRaises, trainOut, cache, result,
    detectVars, projVars, passVars, authVars, crmVars>>

----------------------------------------------------------------------------
(* Bounds of the model *)

\* rows of an alarm frame handed to build_intervals_with_current_time
MaxRows == 3
\* rows of an alarm frame whose severities vary
MaxGradedRows == 2
\* phrases a description handed to detect_failures is put together from
MaxSegments == 2
\* knots of a predicted survival function
MaxKnots == 3
\* largest alarm timestamp (hours) of such a frame; the clock goes one further
MaxTime == 1
\* rows of an interval table handed to train_rsf_model
MaxIntervals == 11
\* alarms the data source delivers in the app session
MaxPipeRows == 11
\* clock readings tried with the worked scenario of unit "A"
ScenarioNows == 60

(* Program constants *)

SEVERITY_THRESHOLD == 6
LOOKBACK_HOURS == 24
TRAIN_MIN_EVENTS == 3
TRAIN_MIN_SAMPLES == 10
PIPE_MIN_SAMPLES == 10
PIPE_MIN_EVENTS == 3
\* sample points of the threshold scan
N_POINTS == 500
\* max_time, in hours
MAX_TIME == 5000
\* left=1.0, in percent
INTERP_LEFT == 100

----------------------------------------------------------------------------
(* Values *)

NaN == <<>>
None == <<>>
Some(v) == <<v>>
IsNull(x) == x = <<>>
Get(x) == x[1]

\* 0-based access, numpy style
At(s, i) == s[i + 1]

RECURSIVE SumSeq(_)
SumSeq(s) == IF s = <<>> THEN 0 ELSE Head(s) + SumSeq(Tail(s))

RECURSIVE MaxSeq(_)
MaxSeq(s) ==
  IF Len(s) = 1 THEN Head(s)
  ELSE LET m == MaxSeq(Tail(s)) IN IF Head(s) >= m THEN Head(s) ELSE m

Column(rows, f) == [i \in 1..Len(rows) |-> rows[i][f]]

Units == {"A", "B"}
\* order in which sort_values / groupby see the unit identifiers
UnitOrder == <<"A", "B">>
UnitRank(u) == CHOOSE i \in 1..Len(UnitOrder) : UnitOrder[i] = u

\* a description is the set of phrases that occur in it
\* the alternatives of '|'.join(keywords), each named by the text it matches
FailureKeywords ==
  { "Low Superheat Critical",
    "Compressor High Head Condition",
    "Returned from Idle Due To Leak Detected",
    "Compressor Drive Failure",
    "El valor de 'Humedad de suministro' 93 % RH ha sido muy alto durante mucho tiempo",
    "El valor de 'Humedad de suministro' 94 % RH ha sido muy alto durante mucho tiempo" }
ExcludeWords ==
  { "cleared", "corrected", "restored", "ok", "normal", "return to normal",
    "solucionado" }

DescFailure == {"Compressor Drive Failure"}
DescRoutine == {"High Temperature"}
DescCleared == {"Compressor Drive Failure", "cleared"}

----------------------------------------------------------------------------
(* utils/alerts.py *)

StrContains(desc, words) == desc \cap words # {}

detect_failures(desc) ==
  StrContains(desc, FailureKeywords) /\ ~StrContains(desc, ExcludeWords)

\* A description text is a sequence of pieces.  The source string of an
\* alternative, in pieces; a parenthesis is a piece of its own.
Pattern(word) ==
  IF word = "El valor de 'Humedad de suministro' 93 % RH ha sido muy alto durante mucho tiempo"
  THEN <<"El valor de 'Humedad de suministro' ", "(", "93 % RH", ")",
         " ha sido muy alto durante mucho tiempo">>
  ELSE IF word = "El valor de 'Humedad de suministro' 94 % RH ha sido muy alto durante mucho tiempo"
  THEN <<"El valor de 'Humedad de suministro' ", "(", "94 % RH", ")",
         " ha sido muy alto durante mucho tiempo">>
  ELSE <<word>>

\* str.contains takes the pattern as a regular expression: a parenthesis
\* opens or closes a group and matches no character
Compiled(pattern) == SelectSeq(pattern, LAMBDA p : p \notin {"(", ")"})

\* case=False
CaseFold ==
  [p \in {"Compressor Drive Failure", "COMPRESSOR DRIVE FAILURE", "CLEARED"} |->
     IF p = "CLEARED" THEN "cleared" ELSE "compressor drive failure"]

Fold(p) == IF p \in DOMAIN CaseFold THEN CaseFold[p] ELSE p

FoldAll(text) == [i \in 1..Len(text) |-> Fold(text[i])]

\* the pieces occur in the text, one after the other, whatever the case
Occurs(pieces, text) ==
  \E i \in 1..(Len(text) - Len(pieces) + 1) :
    FoldAll(SubSeq(text, i, i + Len(pieces) - 1)) = FoldAll(pieces)

\* the alternatives of the two regular expressions that match in a text
PhrasesIn(text) ==
  {w \in FailureKeywords \cup ExcludeWords : Occurs(Compiled(Pattern(w)), text)}

\* variant: a failure also has to be of critical severity
CombineHeuristics_WithSeverity(desc_match, sev, sev_thr) ==
  desc_match /\ sev >= sev_thr

\* is_fail = desc_match: the description alone decides
CombineHeuristics(desc_match, sev, sev_thr) == desc_match

\* one element of the series detect_failures(df, desc_col, sev_col, sev_thr)
\* returns, for a row of description text and severity sev
detect_failures_row(text, has_desc_col, sev, sev_thr) ==
  IF ~has_desc_col THEN FALSE
  ELSE CombineHeuristics(detect_failures(PhrasesIn(text)), sev, sev_thr)

\* build_rsf_model's df_processed: the frame with the is_failure_bool column
WithFailureColumn(frame) ==
  [i \in 1..Len(frame) |->
     [unit |-> frame[i].unit, time |-> frame[i].time, sev |-> frame[i].sev,
      desc |-> frame[i].desc, is_failure_bool |-> detect_failures(frame[i].desc)]]

\* variant: the threshold itself is not critical
IsCritical_Above(sev, sev_thr) == sev > sev_thr

\* device_alarms['Severidad'] >= sev_thr
IsCritical(sev, sev_thr) == sev >= sev_thr

get_last_critical_alarm_time(frame, device, sev_thr) ==
  LET device_alarms == SelectSeq(frame, LAMBDA r : r.unit = device)
      critical_alarms ==
        SelectSeq(device_alarms, LAMBDA r : IsCritical(r.sev, sev_thr))
  IN IF device_alarms = <<>> THEN None
     ELSE IF Len(critical_alarms) > 0
          THEN Some(MaxSeq(Column(critical_alarms, "time")))
          ELSE Some(MaxSeq(Column(device_alarms, "time")))

----------------------------------------------------------------------------
(* utils/data_processing.py: build_intervals_with_current_time *)

KeyLeq(a, b) ==
  \/ UnitRank(a.unit) < UnitRank(b.unit)
  \/ (a.unit = b.unit /\ a.time <= b.time)

RECURSIVE InsertSorted(_, _)
InsertSorted(s, r) ==
  IF s = <<>> THEN <<r>>
  ELSE IF KeyLeq(Head(s), r) THEN <<Head(s)>> \o InsertSorted(Tail(s), r)
       ELSE <<r>> \o s

\* df.sort_values([id_col, time_col]): stable on equal keys
RECURSIVE sort_values(_)
sort_values(frame) ==
  IF frame = <<>> THEN <<>>
  ELSE InsertSorted(sort_values(SubSeq(frame, 1, Len(frame) - 1)), frame[Len(frame)])

\* one group of df.groupby(id_col)
Group(frame, unit) == SelectSeq(frame, LAMBDA r : r.unit = unit)

\* np.where(is_fail)[0]
RECURSIVE WhereFrom(_, _)
WhereFrom(is_fail, i) ==
  IF i >= Len(is_fail) THEN <<>>
  ELSE (IF At(is_fail, i) THEN <<i>> ELSE <<>>) \o WhereFrom(is_fail, i + 1)

FailIndices(is_fail) == WhereFrom(is_fail, 0)

HoursBetween(from, to) == to - from

CurrentTimeElapsed(now, last_critical_time) ==
  IF ~IsNull(last_critical_time) THEN HoursBetween(Get(last_critical_time), now)
  ELSE 0

\* variant: the window is closed at the interval's start
AlarmsLast24h_Closed(times, start_time) ==
  Cardinality({i \in 1..Len(times) :
                 times[i] >= start_time - LOOKBACK_HOURS /\ times[i] <= start_time})

AlarmsLast24h(times, start_time) ==
  Cardinality({i \in 1..Len(times) :
                 times[i] >= start_time - LOOKBACK_HOURS /\ times[i] < start_time})

\* variant: the row at the cursor is taken as the preceding alarm
LastAlarmBeforeIdx_Cursor(start_idx) == start_idx

LastAlarmBeforeIdx(start_idx) == start_idx - 1

\* variant: only an index before the cursor is skipped
SkipFailure_Strict(end_idx, start_idx) == end_idx < start_idx

SkipFailure(end_idx, start_idx) == end_idx <= start_idx

\* variant: the failure row is counted in the interval it ends
EventTotalAlarms_Closed(start_idx, end_idx) == end_idx - start_idx + 1

EventTotalAlarms(start_idx, end_idx) == end_idx - start_idx

\* variant: the cursor moves past the failure row
NextStartIdx_PastFailure(end_idx) == end_idx + 1

NextStartIdx(end_idx) == end_idx

\* variant: a tail only if rows follow the last failure
HasCensoredTail_RowsAfter(start_idx, n) == start_idx + 1 < n

HasCensoredTail(start_idx, n) == start_idx < n

CensoredTotalAlarms(n, start_idx) == n - start_idx

\* variant: the interval starts at the unit's last row
NoFailureInterval_FromLast(c) ==
  LET start_time == At(c.times, c.n - 1)
  IN [unit |-> c.unit, start |-> start_time, end |-> c.now,
      duration_hours |-> HoursBetween(start_time, c.now),
      event |-> 0, total_alarms |-> c.n, alarms_last_24h |-> 0,
      time_since_last_alarm_h |-> Some(HoursBetween(start_time, c.now)),
      current_time_elapsed |-> c.current_time_elapsed,
      last_critical_time |-> c.last_critical_time]

\* the only record of a unit without failure rows
NoFailureInterval(c) ==
  LET start_time == At(c.times, 0)
      last_alarm_time == At(c.times, c.n - 1)
  IN [unit |-> c.unit, start |-> start_time, end |-> c.now,
      duration_hours |-> HoursBetween(start_time, c.now),
      event |-> 0, total_alarms |-> c.n, alarms_last_24h |-> 0,
      time_since_last_alarm_h |-> Some(HoursBetween(last_alarm_time, c.now)),
      current_time_elapsed |-> c.current_time_elapsed,
      last_critical_time |-> c.last_critical_time]

EventInterval(c, start_idx, end_idx) ==
  LET start_time == At(c.times, start_idx)
      end_time == At(c.times, end_idx)
      last_alarm_before_idx == LastAlarmBeforeIdx(start_idx)
  IN [unit |-> c.unit, start |-> start_time, end |-> end_time,
      duration_hours |-> HoursBetween(start_time, end_time),
      event |-> 1, total_alarms |-> EventTotalAlarms(start_idx, end_idx),
      alarms_last_24h |-> AlarmsLast24h(c.times, start_time),
      time_since_last_alarm_h |->
        IF last_alarm_before_idx >= 0
        THEN Some(HoursBetween(At(c.times, last_alarm_before_idx), start_time))
        ELSE NaN,
      current_time_elapsed |-> c.current_time_elapsed,
      last_critical_time |-> c.last_critical_time]

CensoredInterval(c, start_idx) ==
  LET start_time == At(c.times, start_idx)
      last_alarm_time == At(c.times, c.n - 1)
  IN [unit |-> c.unit, start |-> start_time, end |-> c.now,
      duration_hours |-> HoursBetween(start_time, c.now),
      event |-> 0, total_alarms |-> CensoredTotalAlarms(c.n, start_idx),
      alarms_last_24h |-> AlarmsLast24h(c.times, start_time),
      time_since_last_alarm_h |-> Some(HoursBetween(last_alarm_time, c.now)),
      current_time_elapsed |-> c.current_time_elapsed,
      last_critical_time |-> c.last_critical_time]

\* for fi in fail_indices: ...; k is the position in fail_indices
RECURSIVE EventLoop(_, _, _, _, _)
EventLoop(c, fail_indices, k, start_idx, acc) ==
  IF k > Len(fail_indices) THEN [start_idx |-> start_idx, recs |-> acc]
  ELSE LET end_idx == fail_indices[k]
       IN IF SkipFailure(end_idx, start_idx)
          THEN EventLoop(c, fail_indices, k + 1, end_idx, acc)
          ELSE EventLoop(c, fail_indices, k + 1, NextStartIdx(end_idx),
                         Append(acc, EventInterval(c, start_idx, end_idx)))

\* the body of the loop over groups, for one unit
UnitIntervals(frame, unit, now, sev_thr) ==
  LET g == Group(frame, unit)
      last_critical_time == get_last_critical_alarm_time(frame, unit, sev_thr)
      c == [unit |-> unit, times |-> Column(g, "time"), n |-> Len(g), now |-> now,
            last_critical_time |-> last_critical_time,
            current_time_elapsed |-> CurrentTimeElapsed(now, last_critical_time)]
      fail_indices == FailIndices(Column(g, "is_failure_bool"))
  IN IF c.n = 0 THEN <<>>
     ELSE IF Len(fail_indices) = 0 THEN <<NoFailureInterval(c)>>
     ELSE LET l == EventLoop(c, fail_indices, 1, 0, <<>>)
          IN IF HasCensoredTail(l.start_idx, c.n)
             THEN Append(l.recs, CensoredInterval(c, l.start_idx))
             ELSE l.recs

\* variant: the clock is read again at every group, an hour later each time
NowInGroup_ReadAgain(now, k) == now + (k - 1)

\* now is assigned before the loop over the groups: the k-th group sees it
NowInGroup(now, k) == now

RECURSIVE GroupLoop(_, _, _, _)
GroupLoop(frame, k, now, sev_thr) ==
  IF k > Len(UnitOrder) THEN <<>>
  ELSE UnitIntervals(frame, UnitOrder[k], NowInGroup(now, k), sev_thr)
         \o GroupLoop(frame, k + 1, now, sev_thr)

\* the logical columns load_and_process_data detects in a raw read
AlarmColumns == {"Fecha_alarma", "Dispositivo", "Severidad", "Descripcion"}

RequiredColumns == {"Fecha_alarma", "Dispositivo", "Severidad"}

\* an empty read, or one without a required column, gives pd.DataFrame()
load_and_process_data(raw, raw_columns) ==
  IF raw = <<>> \/ ~(RequiredColumns \subseteq raw_columns)
  THEN [columns |-> {}, rows |-> <<>>]
  ELSE [columns |-> raw_columns, rows |-> raw]

\* df.sort_values([id_col, time_col]) raises KeyError on a missing column
SortKeyError(columns) == ~({"Dispositivo", "Fecha_alarma"} \subseteq columns)

\* frame carries is_failure_bool; now is pd.Timestamp.now(), read once
build_intervals_with_current_time(frame, now, sev_thr) ==
  GroupLoop(sort_values(frame), 1, now, sev_thr)

----------------------------------------------------------------------------
(* utils/model.py: train_rsf_model *)

FEATURES == <<"total_alarms", "alarms_last_24h", "time_since_last_alarm_h">>

FeatureSet == {FEATURES[i] : i \in 1..Len(FEATURES)}

IntervalColumns ==
  FeatureSet \cup {"unit", "start", "end", "duration_hours", "event",
                   "current_time_elapsed", "last_critical_time"}

\* pd.DataFrame(recs): an empty list of records gives a frame without columns
DataFrame(rows) ==
  [columns |-> IF rows = <<>> THEN {} ELSE IntervalColumns, rows |-> rows]

NoEvents(n_events) == n_events = 0

\* variant: two events are accepted
TooFewEvents_Two(n_events) == n_events < TRAIN_MIN_EVENTS - 1

TooFewEvents(n_events) == n_events < TRAIN_MIN_EVENTS

TooFewSamples(n_samples) == n_samples < TRAIN_MIN_SAMPLES

\* np.std(times) == 0
ZeroVariance(times) == \A i, j \in 1..Len(times) : times[i] = times[j]

Raise(kind, message) ==
  [kind |-> kind, error |-> message, model |-> None, features |-> None]

\* the fitted forest, named by the table it was fitted on
Fitted(intervals) == [fitted_on |-> intervals.rows]

\* what the except clause around fit/score does with an exception of fit
FitFailure == Raise("ValueError", "Error entrenando el modelo RSF")

\* fit_raises: Surv.from_arrays, rsf.fit or rsf.score raises
train_rsf_model(intervals, fit_raises) ==
  LET events == Column(intervals.rows, "event")
      times == Column(intervals.rows, "duration_hours")
      n_samples == Len(events)
      n_events == SumSeq(events)
  IN IF Len(intervals.rows) = 0
     THEN Raise("ValueError", "No hay intervalos para entrenar el modelo.")
     ELSE IF \E f \in FeatureSet : f \notin intervals.columns
     THEN Raise("ValueError", "Faltan caracteristicas necesarias")
     ELSE IF NoEvents(n_events)
     THEN Raise("ValueError", "No se puede entrenar RSF: 0 eventos")
     ELSE IF TooFewEvents(n_events)
     THEN Raise("ValueError", "Muy pocos eventos")
     ELSE IF TooFewSamples(n_samples)
     THEN Raise("ValueError", "Muy pocas muestras")
     ELSE IF ZeroVariance(times)
     THEN Raise("ValueError", "No hay variabilidad en los tiempos de supervivencia.")
     ELSE IF fit_raises THEN FitFailure
     ELSE [kind |-> "return", error |-> None,
           model |-> Some(Fitted(intervals)), features |-> Some(FEATURES)]

----------------------------------------------------------------------------
(* utils/model.py: build_rsf_model, under st.cache_resource *)

\* variant: without a model the table is given up as well
Returned_EmptyWithoutModel(model, intervals, features, notice) ==
  [kind |-> "return", model |-> model,
   intervals |-> IF IsNull(model) THEN DataFrame(<<>>) ELSE intervals,
   features |-> features, notice |-> notice]

\* a normal return of the tuple (model, intervals, features); notice is what
\* st.warning / st.error showed on the way
Returned(model, intervals, features, notice) ==
  [kind |-> "return", model |-> model, intervals |-> intervals,
   features |-> features, notice |-> notice]

\* variant: the feature list is returned all the same
CriticalError_WithFeatures ==
  Returned(None, DataFrame(<<>>), Some(FEATURES),
           "error: critico construyendo modelo")

\* the outer except clause: any exception of the detector or the builder
CriticalError ==
  Returned(None, DataFrame(<<>>), None, "error: critico construyendo modelo")

EnoughToTrain(n_samples, n_events) ==
  n_samples >= PIPE_MIN_SAMPLES /\ n_events >= PIPE_MIN_EVENTS

\* the function body, run on a cache miss
build_rsf_model_body(frame, columns, sev_thr, now, fit_raises) ==
  LET df_processed == WithFailureColumn(frame)
      intervals ==
        DataFrame(build_intervals_with_current_time(df_processed, now, sev_thr))
      n_events == SumSeq(Column(intervals.rows, "event"))
      n_samples == Len(intervals.rows)
  IN IF SortKeyError(columns) THEN CriticalError
     ELSE IF intervals.rows = <<>>
     THEN Returned(None, DataFrame(<<>>), None, "warning: no se generaron intervalos")
     ELSE IF EnoughToTrain(n_samples, n_events)
     THEN LET t == train_rsf_model(intervals, fit_raises)
          IN IF t.kind = "return"
             THEN Returned(t.model, intervals, t.features, "")
             ELSE IF t.kind = "ValueError"
             THEN Returned(None, intervals, None, "warning: no se pudo entrenar el modelo")
             ELSE Returned(None, intervals, None, "error: inesperado entrenando modelo")
     ELSE Returned(None, intervals, None, "warning: datos o eventos insuficientes")

\* st.cache_resource hashes the arguments whose names do not start with an
\* underscore: of (_df, sev_thr) only sev_thr
CacheKey(frame, sev_thr) == <<sev_thr>>

CacheLookup(store, key) == {e \in store : e.key = key}

----------------------------------------------------------------------------
(* utils/model.py: calculate_time_to_threshold_risk *)

\* A probability is a fraction of percent: [num, den] stands for num/den %.
\* Time points are counted in units of 1/(N_POINTS - 1) hour, which keeps the
\* points of np.linspace whole numbers; floating-point rounding is left out.
TimeScale == N_POINTS - 1

Frac(n, d) == [num |-> n, den |-> d]

\* a <= b for fractions >= 0, by continued fractions (no large products)
RECURSIVE FracLeqBy(_, _, _, _)
FracLeqBy(an, ad, bn, bd) ==
  LET qa == an \div ad
      qb == bn \div bd
      ra == an % ad
      rb == bn % bd
  IN IF qa # qb THEN qa < qb
     ELSE IF ra = 0 THEN TRUE
     ELSE IF rb = 0 THEN FALSE
     ELSE FracLeqBy(bd, rb, ad, ra)

FracLeq(a, b) == FracLeqBy(a.num, a.den, b.num, b.den)

FracEq(a, b) == FracLeq(a, b) /\ FracLeq(b, a)

\* np.linspace(current_time, current_time + max_time, N_POINTS)[k]
TimePoint(current_time, max_time, k) == TimeScale * current_time + max_time * k

\* variant: right of the last knot the value is that of the left side
InterpRight_AsLeft(y) == INTERP_LEFT

\* right=surv_func.y[-1]
InterpRight(y) == y[Len(y)]

\* np.interp(t, x, y, left=1.0, right=y[-1]); x in hours, t in time points
Interp(t, x, y) ==
  IF t < TimeScale * x[1] THEN Frac(INTERP_LEFT, 1)
  ELSE IF t > TimeScale * x[Len(x)] THEN Frac(InterpRight(y), 1)
  ELSE IF t = TimeScale * x[Len(x)] THEN Frac(y[Len(y)], 1)
  ELSE LET j == CHOOSE i \in 1..(Len(x) - 1) :
                  TimeScale * x[i] <= t /\ t < TimeScale * x[i + 1]
           d == TimeScale * (x[j + 1] - x[j])
       IN Frac(y[j] * d + (y[j + 1] - y[j]) * (t - TimeScale * x[j]), d)

\* risk = 1 - survival_prob
Risk(survival_prob) ==
  Frac(100 * survival_prob.den - survival_prob.num, survival_prob.den)

RiskAt(t, surv_func) == Risk(Interp(t, surv_func.x, surv_func.y))

\* variant: the threshold has to be exceeded
ThresholdReached_Strict(risk, risk_threshold) ==
  risk.num > risk_threshold * risk.den

\* risk >= risk_threshold, the threshold in percent
ThresholdReached(risk, risk_threshold) == risk.num >= risk_threshold * risk.den

\* variant: the third component is left out
Triple_WithoutCurrentTime(time_to_threshold, risk, current_time) ==
  [time_to_threshold |-> Some(time_to_threshold), threshold_risk |-> Some(risk),
   current_time |-> None]

\* the tuple (time_to_threshold, risk, current_time); time_to_threshold in
\* units of 1/(N_POINTS - 1) hour
Triple(time_to_threshold, risk, current_time) ==
  [time_to_threshold |-> Some(time_to_threshold), threshold_risk |-> Some(risk),
   current_time |-> Some(current_time)]

NullTriple ==
  [time_to_threshold |-> None, threshold_risk |-> None, current_time |-> None]

\* variant: the final risk is read at the start of the horizon
FinalTime_Start(current_time, max_time) == TimeScale * current_time

\* current_time + max_time
FinalTime(current_time, max_time) == TimeScale * (current_time + max_time)

\* for time_point in time_points: if risk >= risk_threshold: return ...
\* The position of the first point of time_points[lo..hi] the loop returns at,
\* if any; the points are tried from left to right, the range by halves.
RECURSIVE FirstReached(_, _, _, _, _, _)
FirstReached(lo, hi, surv_func, current_time, risk_threshold, max_time) ==
  IF lo = hi
  THEN IF ThresholdReached(RiskAt(TimePoint(current_time, max_time, lo), surv_func),
                           risk_threshold)
       THEN Some(lo) ELSE None
  ELSE LET mid == (lo + hi) \div 2
           left == FirstReached(lo, mid, surv_func, current_time,
                                risk_threshold, max_time)
       IN IF ~IsNull(left) THEN left
          ELSE FirstReached(mid + 1, hi, surv_func, current_time,
                            risk_threshold, max_time)

\* the loop over time_points and the return after it
Scan(surv_func, current_time, risk_threshold, max_time) ==
  LET k == FirstReached(0, N_POINTS - 1, surv_func, current_time,
                        risk_threshold, max_time)
  IN IF ~IsNull(k)
     THEN LET time_point == TimePoint(current_time, max_time, Get(k))
          IN Triple(time_point - TimeScale * current_time,
                    RiskAt(time_point, surv_func), current_time)
     ELSE Triple(TimeScale * max_time,
                 RiskAt(FinalTime(current_time, max_time), surv_func),
                 current_time)

\* model is the forest by what predict_survival_function gives for the latest
\* feature vector of each unit: a survival function, or an exception
calculate_time_to_threshold_risk(model, intervals, unit, risk_threshold, max_time) ==
  LET device_intervals == SelectSeq(intervals.rows, LAMBDA r : r.unit = unit)
  IN IF device_intervals = <<>> THEN NullTriple
     ELSE LET latest_interval == device_intervals[Len(device_intervals)]
              prediction == model[unit]
          IN IF prediction.raises THEN NullTriple
             ELSE Scan(prediction.surv_func,
                       latest_interval.current_time_elapsed,
                       risk_threshold, max_time)

----------------------------------------------------------------------------
(* utils/components.py: render_tab1, render_tab3; viz/charts.py:           *)
(* predict_failure_risk_curves.  The body of the loop over the devices.    *)

\* the step of the loop went through: what it did with the unit
Went(unit, triple, listed) ==
  [aborted |-> FALSE, unit |-> unit, triple |-> triple, listed |-> listed]

\* an exception left the loop
Aborted(unit) ==
  [aborted |-> TRUE, unit |-> unit, triple |-> NullTriple, listed |-> FALSE]

\* variant: a unit already at the threshold is listed too
Listable_FromZero(time_to_threshold) ==
  ~IsNull(time_to_threshold) /\ Get(time_to_threshold) >= 0

\* time_to_threshold is not None and time_to_threshold > 0
Listable(time_to_threshold) ==
  ~IsNull(time_to_threshold) /\ Get(time_to_threshold) > 0

\* render_tab1 and render_tab3: the unit gets a row of maintenance_data if
\* its time to the threshold is there and positive; the current risk of the
\* row comes from a second prediction, outside any try
TabStep(model, intervals, unit, risk_threshold) ==
  LET triple == calculate_time_to_threshold_risk(model, intervals, unit,
                                                 risk_threshold, MAX_TIME)
  IN IF Listable(triple.time_to_threshold)
     THEN IF model[unit].raises THEN Aborted(unit)
          ELSE Went(unit, triple, TRUE)
     ELSE Went(unit, triple, FALSE)

\* predict_failure_risk_curves: the curve of the unit comes from a prediction
\* outside any try; the threshold marker from the projector
ChartStep(model, intervals, unit, risk_threshold) ==
  IF SelectSeq(intervals.rows, LAMBDA r : r.unit = unit) = <<>>
  THEN Went(unit, NullTriple, FALSE)
  ELSE IF model[unit].raises THEN Aborted(unit)
  ELSE Went(unit,
            calculate_time_to_threshold_risk(model, intervals, unit,
                                             risk_threshold, MAX_TIME),
            TRUE)

PassNames == {"render_tab1", "render_tab3", "predict_failure_risk_curves"}

LoopStep(name, model, intervals, unit, risk_threshold) ==
  IF name = "predict_failure_risk_curves"
  THEN ChartStep(model, intervals, unit, risk_threshold)
  ELSE TabStep(model, intervals, unit, risk_threshold)

----------------------------------------------------------------------------
(* Inputs *)

Times == 0..MaxTime
Nows == 0..(MaxTime + 1)
\* an alarm of critical severity
Alarm(unit, time, desc) ==
  [unit |-> unit, time |-> time, desc |-> desc, sev |-> SEVERITY_THRESHOLD]

AlarmRows ==
  {Alarm(u, t, d) : u \in Units, t \in Times, d \in {DescFailure, DescRoutine}}

\* the frames of at most MaxRows rows, in any row order
Frames == UNION {[1..n -> AlarmRows] : n \in 0..MaxRows}

\* severities around the threshold
Severities == {SEVERITY_THRESHOLD - 1, SEVERITY_THRESHOLD}

\* alarms of either severity
GradedRows ==
  {[unit |-> u, time |-> t, desc |-> d, sev |-> v] :
     u \in Units, t \in Times, d \in {DescFailure, DescRoutine}, v \in Severities}

\* the frames of at most MaxGradedRows rows of either severity
GradedFrames == UNION {[1..n -> GradedRows] : n \in 0..MaxGradedRows}

\* unit "A": alarms at hours 0, 10, 50 (failure), 60, 200 (failure), 260
ScenarioA ==
  << Alarm("A", 0, DescRoutine), Alarm("A", 10, DescRoutine),
     Alarm("A", 50, DescFailure), Alarm("A", 60, DescRoutine),
     Alarm("A", 200, DescFailure), Alarm("A", 260, DescRoutine) >>

ScenarioClock == 261..(260 + ScenarioNows)

RECURSIVE Repeat(_, _)
Repeat(x, n) == IF n = 0 THEN <<>> ELSE <<x>> \o Repeat(x, n - 1)

IntervalRow(event, duration) ==
  [unit |-> "A", start |-> 0, end |-> duration, duration_hours |-> duration,
   event |-> event, total_alarms |-> 1, alarms_last_24h |-> 0,
   time_since_last_alarm_h |-> NaN, current_time_elapsed |-> 0,
   last_critical_time |-> Some(0)]

\* an interval table with e1/e2 events and c1/c2 censored rows of 1/2 hours
IntervalTable(e1, e2, c1, c2, missing) ==
  [columns |-> IF e1 + e2 + c1 + c2 = 0 THEN {} ELSE IntervalColumns \ missing,
   rows |-> Repeat(IntervalRow(1, 1), e1) \o Repeat(IntervalRow(1, 2), e2)
              \o Repeat(IntervalRow(0, 1), c1) \o Repeat(IntervalRow(0, 2), c2)]

\* the phrases descriptions are put together from
Segments ==
  { <<"Compressor Drive Failure">>, <<"COMPRESSOR DRIVE FAILURE">>,
    Pattern("El valor de 'Humedad de suministro' 93 % RH ha sido muy alto durante mucho tiempo"),
    Compiled(Pattern("El valor de 'Humedad de suministro' 93 % RH ha sido muy alto durante mucho tiempo")),
    <<"cleared">>, <<"CLEARED">>, <<"High Temperature">> }

RECURSIVE Texts(_)
Texts(n) ==
  IF n = 0 THEN {<<>>}
  ELSE Texts(n - 1) \cup {t \o g : t \in Texts(n - 1), g \in Segments}

\* no description is under test
NoDetect ==
  /\ description = <<>> /\ hasDescCol = TRUE /\ isFail = None
  /\ rowSeverity = SEVERITY_THRESHOLD /\ sevThr = SEVERITY_THRESHOLD

\* values of sev_thr a caller passes
SevThresholds == {SEVERITY_THRESHOLD, SEVERITY_THRESHOLD + 1}

\* event times (hours) and survival levels (percent) of predicted functions
KnotTimes == {0, 2500, 4995, 5000, 6000}
SurvLevels == {100, 60, 20, 10}

\* step functions of n knots: x increasing, y not increasing
SurvFuncs(n) ==
  {f \in [x : [1..n -> KnotTimes], y : [1..n -> SurvLevels]] :
     \A i \in 1..(n - 1) : f.x[i] < f.x[i + 1] /\ f.y[i] >= f.y[i + 1]}

\* predict_survival_function raises
NoPrediction == [raises |-> TRUE, surv_func |-> [x |-> <<0>>, y |-> <<100>>]]

Predictions ==
  {NoPrediction}
    \cup {[raises |-> FALSE, surv_func |-> f] :
            f \in UNION {SurvFuncs(n) : n \in 1..MaxKnots}}

\* current_time_elapsed of a unit's latest interval, in hours
ElapsedTimes == {0, 10, 4000}

\* the sidebar's risk threshold, in percent
RiskThresholds == {50, 80}

\* the latest interval of a unit, current_time hours after its last critical alarm
LatestInterval(unit, current_time) ==
  [unit |-> unit, start |-> 0, end |-> current_time,
   duration_hours |-> current_time, event |-> 0, total_alarms |-> 1,
   alarms_last_24h |-> 0, time_since_last_alarm_h |-> NaN,
   current_time_elapsed |-> current_time, last_critical_time |-> Some(0)]

\* sorted(df['Dispositivo'].unique()), filtered by the sidebar
DeviceLists == {SelectSeq(UnitOrder, LAMBDA u : u \in S) : S \in SUBSET Units}

\* a survival function that falls over the horizon
FallingSurvFunc == [x |-> <<0, 2500>>, y |-> <<100, 10>>]

\* no pass over the devices is under way
NoPass == passName = "render_tab1" /\ devices = <<>> /\ visited = <<>>

\* no projection is under way
NoProject ==
  /\ rsf = [u \in Units |-> NoPrediction] /\ riskThreshold = 80
  /\ projDevice = "A" /\ projection = None

----------------------------------------------------------------------------
(* viz/auth_config.py and main() of app.py: the login session.  A value of  *)
(* st.session_state that may be None follows the convention above.          *)

\* USERS
USERS ==
  [u \in {"admin", "EAFIT", "UNICAUCA"} |->
     CASE u = "admin" -> [password |-> "admin123!", name |-> "",
                          role |-> "Administrador",
                          cliente |-> "Todos los clientes"]
       [] u = "EAFIT" -> [password |-> "EAFIT1!", name |-> "EAFIT",
                          role |-> "Operador",
                          cliente |-> "UNIVERSIDAD EAFIT"]
       [] u = "UNICAUCA" -> [password |-> "UCA1!", name |-> "UNICAUCA",
                             role |-> "Operador",
                             cliente |-> "UNIVERSIDAD DEL CAUCA"]]

\* hash_password: a digest, equal for equal passwords only
hash_password(password) == <<"sha256", password>>

\* verify_login
verify_login(username, password) ==
  IF username \in DOMAIN USERS
  THEN hash_password(password) = hash_password(USERS[username].password)
  ELSE FALSE

\* a session that no script run has touched
FreshSession == [k \in {} |-> None]

SessionDefault(k) == IF k = "authenticated" THEN FALSE ELSE None

\* init_session_state: every key that is absent gets its default
init_session_state(state) ==
  [k \in {"authenticated", "username", "user_info"} |->
     IF k \in DOMAIN state THEN state[k] ELSE SessionDefault(k)]

\* require_auth
require_auth(state) == state.authenticated

\* render_sidebar_login, the assignments after a verified login
AfterLogin(state, username) ==
  [state EXCEPT !.authenticated = TRUE, !.username = Some(username),
                !.user_info = Some(USERS[username])]

\* render_sidebar_user_info, the assignments of the logout button, keeping
\* the user's record
AfterLogout_KeepInfo(state) ==
  [state EXCEPT !.authenticated = FALSE, !.username = None]

\* render_sidebar_user_info, the assignments of the logout button
AfterLogout(state) ==
  [state EXCEPT !.authenticated = FALSE, !.username = None,
                !.user_info = None]

\* render_sidebar_user_info shows the logout button
LogoutShown(state) == state.authenticated /\ state.user_info # None

\* main(), its second test of require_auth
Interface(state) ==
  IF require_auth(state) THEN "render_authenticated_interface"
  ELSE "render_public_interface"

\* one run of main() with the widget values of the event that started it;
\* st.rerun() ends the run and starts another one without an event
RECURSIVE main(_, _, _, _, _)
main(state, username, password, submit, logout_btn) ==
  LET s == init_session_state(state)
  IN IF ~require_auth(s)
     THEN IF submit /\ verify_login(username, password)
          THEN main(AfterLogin(s, username), username, password, FALSE, FALSE)
          ELSE [state |-> s, interface |-> Interface(s), toast |-> submit]
     ELSE IF LogoutShown(s) /\ logout_btn
          THEN main(AfterLogout(s), username, password, FALSE, FALSE)
          ELSE [state |-> s, interface |-> Interface(s), toast |-> FALSE]

\* what is typed in the fields "input-user" and "input-pass"
TypedUsers == {"", "admin", "EAFIT", "UNICAUCA", "eafit", "root"}

TypedPasswords == {"", "admin123!", "EAFIT1!", "UCA1!", "1234"}

\* the session after the first run of main()
FirstRun == main(FreshSession, "", "", FALSE, FALSE)

\* nobody uses the login
NoAuth ==
  /\ session_state = FirstRun.state /\ interface = FirstRun.interface
  /\ toast = FirstRun.toast /\ inputUser = "" /\ inputPass = ""
  /\ lastEvent = "load"

----------------------------------------------------------------------------
(* utils/api_crm.py: CRMClient.  Time is in seconds.  The requests a call   *)
(* sends and the results it gets are kept in order as [op, outcome].        *)

\* seconds a token is taken to live
TOKEN_LIFETIME == 3600

\* seconds before the expiry from which a token is no longer used
EXPIRY_MARGIN == 300

\* seconds between two readings of time.time()
CrmTick == 300

\* readings of time.time()
MaxCrmTicks == 14

\* CRMClient.__init__
CRMClient == [access_token |-> None, token_expiry |-> None,
              refresh_token |-> None]

\* what the token endpoint answers
TokenResponses == {"200", "200 without access_token", "401", "exception"}

\* what the equipment endpoint answers
QueryResponses == {"200", "500", "exception"}

Entry(op, outcome) == [op |-> op, outcome |-> outcome]

\* tokens.get('access_token')
TokenOf(response) == IF response = "200" THEN Some("access_token") ELSE None

\* tokens.get('refresh_token')
RefreshTokenOf(response) ==
  IF response = "200" THEN Some("refresh_token") ELSE None

\* response.status_code == 200
Ok(response) == response \in {"200", "200 without access_token"}

\* get_access_token
get_access_token(client, now, response) ==
  LET sent == <<Entry("POST token_url", response)>>
  IN IF Ok(response)
     THEN [client |-> [client EXCEPT !.access_token = TokenOf(response),
                                     !.token_expiry = Some(now + TOKEN_LIFETIME)],
           ok |-> TRUE, log |-> sent]
     ELSE [client |-> client, ok |-> FALSE, log |-> sent]

\* refresh_access_token
refresh_access_token(client, now, refresh_response, response) ==
  IF client.refresh_token # None
  THEN LET sent == <<Entry("POST token_url", refresh_response)>>
           again == get_access_token(client, now, response)
       IN IF Ok(refresh_response)
          THEN [client |-> [client EXCEPT
                              !.access_token = TokenOf(refresh_response),
                              !.refresh_token = RefreshTokenOf(refresh_response),
                              !.token_expiry = Some(now + TOKEN_LIFETIME)],
                ok |-> TRUE, log |-> sent]
          ELSE [again EXCEPT !.log = sent \o again.log]
  ELSE get_access_token(client, now, response)

\* is_token_valid, without the margin
is_token_valid_UntilExpiry(client, now) ==
  IF client.access_token = None \/ client.token_expiry = None THEN FALSE
  ELSE now < client.token_expiry[1]

\* is_token_valid
is_token_valid(client, now) ==
  IF client.access_token = None \/ client.token_expiry = None THEN FALSE
  ELSE now < client.token_expiry[1] - EXPIRY_MARGIN

\* ensure_valid_token
ensure_valid_token(client, now, refresh_response, response) ==
  LET renewed == refresh_access_token(client, now, refresh_response, response)
      returned(r) == [r EXCEPT !.log = r.log \o
                        <<Entry("ensure_valid_token",
                                IF r.ok THEN "True" ELSE "False")>>]
  IN IF ~is_token_valid(client, now) THEN returned(renewed)
     ELSE returned([client |-> client, ok |-> TRUE, log |-> <<>>])

\* get_equipos_info
get_equipos_info(client, now, refresh_response, response, query_response) ==
  LET ensured == ensure_valid_token(client, now, refresh_response, response)
  IN IF ~ensured.ok
     THEN [client |-> ensured.client, log |-> ensured.log, return |-> None]
     ELSE [client |-> ensured.client,
           log |-> ensured.log \o <<Entry("POST equipos_url", query_response)>>,
           return |-> IF query_response = "200" THEN Some("resultado")
                      ELSE None]

\* nobody uses the client
NoCrm == crm = CRMClient /\ crmTime = 0 /\ crmLog = <<>> /\ crmReturn = None

----------------------------------------------------------------------------
(* SpecBuild: build_intervals_with_current_time on every small frame *)

InitBuild ==
  /\ pc = "input"
  /\ \/ df \in Frames /\ clock \in Nows
     \/ df = ScenarioA /\ clock \in ScenarioClock
  /\ dfColumns = AlarmColumns
  /\ recs = <<>> /\ table = DataFrame(<<>>) /\ fitRaises = FALSE
  /\ trainOut = None /\ cache = {} /\ result = None
  /\ NoDetect /\ NoProject /\ NoPass /\ NoAuth /\ NoCrm

BuildIntervals ==
  /\ pc = "input"
  /\ recs' = build_intervals_with_current_time(WithFailureColumn(df), clock,
                                               SEVERITY_THRESHOLD)
  /\ pc' = "built"
  /\ UNCHANGED <<df, dfColumns, clock, table, fitRaises, trainOut, cache, result>>
  /\ UNCHANGED <<detectVars, projVars, passVars, authVars, crmVars>>

NextBuild == BuildIntervals

SpecBuild == InitBuild /\ [][NextBuild]_vars

----------------------------------------------------------------------------
(* SpecSeverity: build_intervals_with_current_time on frames whose rows are *)
(* of severity below or at the threshold                                   *)

InitSeverity ==
  /\ pc = "input"
  /\ df \in GradedFrames /\ clock \in Nows
  /\ dfColumns = AlarmColumns
  /\ recs = <<>> /\ table = DataFrame(<<>>) /\ fitRaises = FALSE
  /\ trainOut = None /\ cache = {} /\ result = None
  /\ NoDetect /\ NoProject /\ NoPass /\ NoAuth /\ NoCrm

SpecSeverity == InitSeverity /\ [][NextBuild]_vars

----------------------------------------------------------------------------
(* SpecTrain: train_rsf_model on every small interval table *)

InitTrain ==
  /\ pc = "input"
  /\ \E e1, e2, c1, c2 \in 0..MaxIntervals, missing \in SUBSET FeatureSet :
       /\ e1 + e2 + c1 + c2 <= MaxIntervals
       /\ table = IntervalTable(e1, e2, c1, c2, missing)
  /\ fitRaises \in BOOLEAN
  /\ df = <<>> /\ dfColumns = AlarmColumns /\ clock = 0 /\ recs = <<>>
  /\ trainOut = None /\ cache = {} /\ result = None
  /\ NoDetect /\ NoProject /\ NoPass /\ NoAuth /\ NoCrm

Train ==
  /\ pc = "input"
  /\ trainOut' = Some(train_rsf_model(table, fitRaises))
  /\ pc' = "trained"
  /\ UNCHANGED <<df, dfColumns, clock, recs, table, fitRaises, cache, result>>
  /\ UNCHANGED <<detectVars, projVars, passVars, authVars, crmVars>>

NextTrain == Train

SpecTrain == InitTrain /\ [][NextTrain]_vars

----------------------------------------------------------------------------
(* SpecDetect: detect_failures on one row, with or without the description *)
(* column                                                                  *)

InitDetect ==
  /\ pc = "input"
  /\ description \in Texts(MaxSegments)
  /\ hasDescCol \in BOOLEAN
  /\ rowSeverity \in Severities /\ sevThr \in SevThresholds
  /\ isFail = None
  /\ df = <<>> /\ dfColumns = AlarmColumns /\ clock = 0 /\ recs = <<>>
  /\ table = DataFrame(<<>>) /\ fitRaises = FALSE
  /\ trainOut = None /\ cache = {} /\ result = None
  /\ NoProject /\ NoPass /\ NoAuth /\ NoCrm

Detect ==
  /\ pc = "input"
  /\ isFail' = Some(detect_failures_row(description, hasDescCol, rowSeverity,
                                        sevThr))
  /\ pc' = "detected"
  /\ UNCHANGED <<df, dfColumns, clock, recs, table, fitRaises, trainOut, cache,
                 result, description, hasDescCol, rowSeverity, sevThr,
                 projVars, passVars, authVars, crmVars>>

NextDetect == Detect

SpecDetect == InitDetect /\ [][NextDetect]_vars

----------------------------------------------------------------------------
(* SpecProject: calculate_time_to_threshold_risk for one unit *)

InitProject ==
  /\ pc = "input"
  /\ \E current_time \in ElapsedTimes :
       table = DataFrame(<<LatestInterval("A", current_time)>>)
  /\ \E p \in Predictions : rsf = [u \in Units |-> p]
  /\ riskThreshold \in RiskThresholds
  /\ projDevice \in Units
  /\ projection = None
  /\ df = <<>> /\ dfColumns = AlarmColumns /\ clock = 0 /\ recs = <<>>
  /\ fitRaises = FALSE /\ trainOut = None /\ cache = {} /\ result = None
  /\ NoDetect /\ NoPass /\ NoAuth /\ NoCrm

Project ==
  /\ pc = "input"
  /\ projection' = Some(calculate_time_to_threshold_risk(
                           rsf, table, projDevice, riskThreshold, MAX_TIME))
  /\ pc' = "projected"
  /\ UNCHANGED <<df, dfColumns, clock, recs, table, fitRaises, trainOut, cache,
                 result, detectVars, rsf, riskThreshold, projDevice,
                 passVars, authVars, crmVars>>

NextProject == Project

SpecProject == InitProject /\ [][NextProject]_vars

----------------------------------------------------------------------------
(* SpecPass: one pass of a tab or of the chart over the available devices *)

InitPass ==
  /\ pc = "pass"
  /\ passName \in PassNames
  /\ devices \in DeviceLists
  /\ visited = <<>>
  /\ \E S \in SUBSET Units, current_time \in ElapsedTimes :
       table = DataFrame([i \in 1..Len(SelectSeq(UnitOrder, LAMBDA u : u \in S)) |->
                            LatestInterval(SelectSeq(UnitOrder, LAMBDA u : u \in S)[i],
                                           current_time)])
  /\ rsf \in [Units -> {NoPrediction,
                         [raises |-> FALSE, surv_func |-> FallingSurvFunc]}]
  /\ riskThreshold \in RiskThresholds
  /\ projDevice = "A" /\ projection = None
  /\ df = <<>> /\ dfColumns = AlarmColumns /\ clock = 0 /\ recs = <<>>
  /\ fitRaises = FALSE /\ trainOut = None /\ cache = {} /\ result = None
  /\ NoDetect /\ NoAuth /\ NoCrm

\* one turn of the loop: for device in available_devices
PassStep ==
  /\ pc = "pass"
  /\ Len(visited) < Len(devices)
  /\ LET step == LoopStep(passName, rsf, table, devices[Len(visited) + 1],
                          riskThreshold)
     IN /\ visited' = Append(visited, step)
        /\ pc' = IF step.aborted THEN "passAborted" ELSE "pass"
  /\ UNCHANGED <<df, dfColumns, clock, recs, table, fitRaises, trainOut, cache,
                 result, detectVars, projVars, passName, devices, authVars,
                 crmVars>>

\* the loop is through
PassEnds ==
  /\ pc = "pass"
  /\ Len(visited) = Len(devices)
  /\ pc' = "passDone"
  /\ UNCHANGED <<df, dfColumns, clock, recs, table, fitRaises, trainOut, cache,
                 result, detectVars, projVars, passVars, authVars, crmVars>>

NextPass == PassStep \/ PassEnds

SpecPass == InitPass /\ [][NextPass]_vars

----------------------------------------------------------------------------
(* Spec: the app session.  Alarms reach the data source one per hour; every *)
(* script run reads the whole alarm history and calls build_rsf_model.  The *)
(* source table has its timestamp column under a name the loader detects,   *)
(* or not.                                                                  *)

SourceColumns == {AlarmColumns, AlarmColumns \ {"Fecha_alarma"}}

Init ==
  /\ pc = "idle"
  /\ dfColumns \in SourceColumns
  /\ df = <<>> /\ clock = 0 /\ recs = <<>> /\ table = DataFrame(<<>>)
  /\ fitRaises = FALSE /\ trainOut = None /\ cache = {} /\ result = None
  /\ NoDetect /\ NoProject /\ NoPass /\ NoAuth /\ NoCrm

AlarmArrives ==
  /\ Len(df) < MaxPipeRows
  /\ \E desc \in {DescFailure, DescRoutine} :
       df' = Append(df, Alarm("A", clock, desc))
  /\ clock' = clock + 1
  /\ pc' = "idle"
  /\ UNCHANGED <<dfColumns, recs, table, fitRaises, trainOut, cache, result>>
  /\ UNCHANGED <<detectVars, projVars, passVars, authVars, crmVars>>

\* render_authenticated_interface stops the script on an empty read; otherwise
\* it calls build_rsf_model(df_complete, SEVERITY_THRESHOLD): the cached value
\* of the key if there is one, else the body's value, which is then cached
RunPipeline ==
  /\ df # <<>>
  /\ \E fit_raises \in BOOLEAN :
       LET df_complete == load_and_process_data(df, dfColumns)
           key == CacheKey(df_complete.rows, SEVERITY_THRESHOLD)
           hit == CacheLookup(cache, key)
           value == IF hit # {} THEN (CHOOSE e \in hit : TRUE).value
                    ELSE build_rsf_model_body(df_complete.rows,
                                              df_complete.columns,
                                              SEVERITY_THRESHOLD, clock,
                                              fit_raises)
       IN /\ cache' = cache \cup {[key |-> key, value |-> value]}
          /\ result' = Some(value)
  /\ pc' = "returned"
  /\ UNCHANGED <<df, dfColumns, clock, recs, table, fitRaises, trainOut>>
  /\ UNCHANGED <<detectVars, projVars, passVars, authVars, crmVars>>

Next == AlarmArrives \/ RunPipeline

Spec == Init /\ [][Next]_vars

----------------------------------------------------------------------------
(* SpecAuth: the login session of one browser over the runs of main() *)

InitAuth ==
  /\ pc = "idle" /\ dfColumns = AlarmColumns
  /\ df = <<>> /\ clock = 0 /\ recs = <<>> /\ table = DataFrame(<<>>)
  /\ fitRaises = FALSE /\ trainOut = None /\ cache = {} /\ result = None
  /\ NoDetect /\ NoProject /\ NoPass /\ NoAuth /\ NoCrm

\* the session and the page after a run of main()
Ran(run, name) ==
  /\ session_state' = run.state
  /\ interface' = run.interface
  /\ toast' = run.toast
  /\ lastEvent' = name

AuthUnchanged ==
  UNCHANGED <<df, dfColumns, clock, pc, recs, table, fitRaises, trainOut,
              cache, result, detectVars, projVars, passVars, crmVars>>

\* the user types in the login form, which the page shows
FillLoginForm ==
  /\ ~require_auth(session_state)
  /\ inputUser' \in TypedUsers /\ inputPass' \in TypedPasswords
  /\ lastEvent' = "type"
  /\ UNCHANGED <<session_state, interface, toast>>
  /\ AuthUnchanged

\* the button "Ingresar"
SubmitLogin ==
  /\ ~require_auth(session_state)
  /\ Ran(main(session_state, inputUser, inputPass, TRUE, FALSE), "login_btn")
  /\ UNCHANGED <<inputUser, inputPass>>
  /\ AuthUnchanged

\* the button "Cerrar Sesion"
Logout ==
  /\ LogoutShown(session_state)
  /\ Ran(main(session_state, inputUser, inputPass, FALSE, TRUE), "logout_btn")
  /\ UNCHANGED <<inputUser, inputPass>>
  /\ AuthUnchanged

\* any other interaction runs main() again
Rerun ==
  /\ Ran(main(session_state, inputUser, inputPass, FALSE, FALSE), "rerun")
  /\ UNCHANGED <<inputUser, inputPass>>
  /\ AuthUnchanged

NextAuth == FillLoginForm \/ SubmitLogin \/ Logout \/ Rerun

SpecAuth == InitAuth /\ [][NextAuth]_vars

----------------------------------------------------------------------------
(* SpecCrm: one CRMClient over calls of get_equipos_info *)

InitCrm ==
  /\ pc = "idle" /\ dfColumns = AlarmColumns
  /\ df = <<>> /\ clock = 0 /\ recs = <<>> /\ table = DataFrame(<<>>)
  /\ fitRaises = FALSE /\ trainOut = None /\ cache = {} /\ result = None
  /\ NoDetect /\ NoProject /\ NoPass /\ NoAuth /\ NoCrm

CrmUnchanged ==
  UNCHANGED <<df, dfColumns, clock, pc, recs, table, fitRaises, trainOut,
              cache, result, detectVars, projVars, passVars, authVars>>

\* time passes between two calls
CrmTimePasses ==
  /\ crmTime < MaxCrmTicks * CrmTick
  /\ crmTime' = crmTime + CrmTick
  /\ UNCHANGED <<crm, crmLog, crmReturn>>
  /\ CrmUnchanged

\* a call of get_equipos_info
GetEquiposInfo ==
  /\ \E refresh_response \in TokenResponses, response \in TokenResponses,
        query_response \in QueryResponses :
       LET call == get_equipos_info(crm, crmTime, refresh_response, response,
                                    query_response)
       IN /\ crm' = call.client
          /\ crmLog' = call.log
          /\ crmReturn' = call.return
  /\ UNCHANGED crmTime
  /\ CrmUnchanged

NextCrm == CrmTimePasses \/ GetEquiposInfo

SpecCrm == InitCrm /\ [][NextCrm]_vars

----------------------------------------------------------------------------
(* Properties of build_intervals_with_current_time (SpecBuild) *)

Built == pc = "built"

\* the rows of a unit as the data source gave them
UnitRows(u) == Group(WithFailureColumn(df), u)

\* the rows of a unit in the order the builder walks them
SortedRows(u) == Group(sort_values(WithFailureColumn(df)), u)

RowCount(u) == Len(UnitRows(u))

FailureCount(u) == Len(SelectSeq(UnitRows(u), LAMBDA r : r.is_failure_bool))

FirstTime(u) ==
  LET times == Column(UnitRows(u), "time")
  IN CHOOSE t \in {times[i] : i \in 1..Len(times)} :
       \A i \in 1..Len(times) : t <= times[i]

UnitRecs(u) == SelectSeq(recs, LAMBDA r : r.unit = u)

EventRecs(u) == SelectSeq(UnitRecs(u), LAMBDA r : r.event = 1)

CensoredRecs(u) == SelectSeq(UnitRecs(u), LAMBDA r : r.event = 0)

TotalAlarmsSum(u) == SumSeq(Column(UnitRecs(u), "total_alarms"))

FirstRowFails(u) == RowCount(u) > 0 /\ SortedRows(u)[1].is_failure_bool

LastRowFails(u) == RowCount(u) > 0 /\ SortedRows(u)[RowCount(u)].is_failure_bool

\* time of the last failure row of a unit that has one
LastFailureTime(u) ==
  LET g == SortedRows(u)
      last == CHOOSE i \in 1..Len(g) :
                g[i].is_failure_bool /\ \A j \in (i + 1)..Len(g) : ~g[j].is_failure_bool
  IN g[last].time

\* C2: for every unit, whatever the placement of its failure rows, the
\* total_alarms of its intervals add up to its row count.
C2_TotalAlarmsSumIsRowCount ==
  Built => \A u \in Units : TotalAlarmsSum(u) = RowCount(u)

\* a unit whose three rows are all failures: first row, last row, consecutive
C2_Witness ==
  /\ Built
  /\ \E u \in Units :
       /\ RowCount(u) = 3 /\ FailureCount(u) = 3
       /\ Len(UnitRecs(u)) = 3 /\ TotalAlarmsSum(u) = 3

\* C3: a unit without failure rows gets exactly one interval: censored, from
\* its first timestamp to now, counting all its rows.
C3_NoFailureOneCensored ==
  Built =>
    \A u \in Units :
      (RowCount(u) > 0 /\ FailureCount(u) = 0) =>
        LET rs == UnitRecs(u)
        IN /\ Len(rs) = 1
           /\ rs[1].event = 0
           /\ rs[1].start = FirstTime(u)
           /\ rs[1].end = clock
           /\ rs[1].total_alarms = RowCount(u)

\* a unit with rows at two different hours and no failure
C3_Witness ==
  /\ Built
  /\ \E u \in Units :
       /\ RowCount(u) >= 2 /\ FailureCount(u) = 0
       /\ \E i \in 1..RowCount(u) : UnitRows(u)[i].time # FirstTime(u)
       /\ Len(UnitRecs(u)) = 1

\* C4 as stated: a unit with k >= 1 failure rows gets exactly k event
\* intervals, also when its first row is a failure.
C4_Original ==
  Built =>
    \A u \in Units : FailureCount(u) >= 1 => Len(EventRecs(u)) = FailureCount(u)

\* C4 amended: a unit with k >= 1 failure rows gets k event intervals when its
\* first row (in time order) is not a failure and k - 1 when it is.
C4_EventsPerFailureAfterFirstRow ==
  Built =>
    \A u \in Units :
      FailureCount(u) >= 1 =>
        Len(EventRecs(u)) =
          FailureCount(u) - (IF FirstRowFails(u) THEN 1 ELSE 0)

\* a unit of three rows whose first and one later row are failures
C4_Witness ==
  /\ Built
  /\ \E u \in Units :
       /\ RowCount(u) = 3 /\ FailureCount(u) = 2 /\ FirstRowFails(u)
       /\ Len(EventRecs(u)) = 1

\* C5 as stated: a unit with k failures whose last row is the last failure
\* gets exactly k intervals, all events, and no censored interval.
C5_Original ==
  Built =>
    \A u \in Units :
      (FailureCount(u) >= 1 /\ LastRowFails(u)) =>
        /\ Len(UnitRecs(u)) = FailureCount(u)
        /\ CensoredRecs(u) = <<>>

\* C5 amended: every unit with a failure row gets, after its event intervals,
\* exactly one censored interval, from the last failure row's time to now; if
\* the last row is the last failure that interval counts one row.
C5_CensoredTailAlways ==
  Built =>
    \A u \in Units :
      FailureCount(u) >= 1 =>
        LET rs == UnitRecs(u)
            tail == rs[Len(rs)]
        IN /\ Len(rs) = Len(EventRecs(u)) + 1
           /\ EventRecs(u) = SubSeq(rs, 1, Len(rs) - 1)
           /\ tail.event = 0
           /\ tail.start = LastFailureTime(u)
           /\ tail.end = clock
           /\ LastRowFails(u) => tail.total_alarms = 1

\* a unit of three rows whose last two are failures
C5_Witness ==
  /\ Built
  /\ \E u \in Units :
       /\ RowCount(u) = 3 /\ FailureCount(u) = 2 /\ ~FirstRowFails(u)
       /\ LastRowFails(u)
       /\ Len(UnitRecs(u)) = 3 /\ Len(CensoredRecs(u)) = 1

Shape(rs) ==
  [i \in 1..Len(rs) |->
     <<rs[i].event, rs[i].start, rs[i].end, rs[i].total_alarms>>]

\* C6 as stated: the scenario of unit "A" gives 0->50 and 50->200 as events
\* and 200->now censored, with total_alarms 3, 3, 1.
C6_Original ==
  (Built /\ df = ScenarioA) =>
    Shape(recs) = << <<1, 0, 50, 3>>, <<1, 50, 200, 3>>, <<0, 200, clock, 1>> >>

\* C6 amended: the same three intervals carry total_alarms 2, 2, 2.
C6_ScenarioIntervals ==
  (Built /\ df = ScenarioA) =>
    Shape(recs) = << <<1, 0, 50, 2>>, <<1, 50, 200, 2>>, <<0, 200, clock, 2>> >>

C6_Witness == Built /\ df = ScenarioA /\ Len(recs) = 3

StrictlyOrdered(rs) ==
  /\ \A i \in 1..Len(rs) : rs[i].start < rs[i].end
  /\ \A i \in 1..(Len(rs) - 1) : rs[i].end <= rs[i + 1].start

\* C7: the intervals of a unit are strictly time-ordered and do not overlap
\* (start < end <= next start) and count every row of the unit once, also
\* with equal timestamps.
C7_StrictlyOrderedPartition ==
  Built =>
    \A u \in Units :
      StrictlyOrdered(UnitRecs(u)) /\ TotalAlarmsSum(u) = RowCount(u)

\* C8: every interval has duration_hours = end - start and >= 0, also with
\* timestamps later than now.
C8_DurationNonNegative ==
  Built =>
    \A i \in 1..Len(recs) :
      recs[i].duration_hours = recs[i].end - recs[i].start
        /\ recs[i].duration_hours >= 0

\* rows of the unit before the first row of its i-th interval: the cursor
RowsBefore(rs, i) == SumSeq(Column(SubSeq(rs, 1, i - 1), "total_alarms"))

\* C19 as stated: alarms_last_24h of an interval never exceeds total_alarms of
\* the unit's immediately preceding interval, nor the unit's row count.
C19_Original ==
  Built =>
    \A u \in Units :
      LET rs == UnitRecs(u)
      IN \A i \in 1..Len(rs) :
           /\ i > 1 => rs[i].alarms_last_24h <= rs[i - 1].total_alarms
           /\ rs[i].alarms_last_24h <= RowCount(u)

\* C19 amended: alarms_last_24h of an interval never exceeds the number of the
\* unit's rows before the interval's first row (the total_alarms of all the
\* unit's preceding intervals together, 0 for the first), nor the row count.
C19_WindowWithinEarlierRows ==
  Built =>
    \A u \in Units :
      LET rs == UnitRecs(u)
      IN \A i \in 1..Len(rs) :
           /\ rs[i].alarms_last_24h <= RowsBefore(rs, i)
           /\ rs[i].alarms_last_24h <= RowCount(u)

\* a third interval whose window holds both earlier rows of the unit
C19_Witness ==
  /\ Built
  /\ \E u \in Units :
       /\ Len(UnitRecs(u)) = 3
       /\ UnitRecs(u)[3].alarms_last_24h = 2
       /\ UnitRecs(u)[2].total_alarms = 1

\* C20 as stated: time_since_last_alarm_h is null for the first interval of a
\* unit, event or censored, and for a later interval it is the hours from the
\* row just before the interval's first row to the interval's start.
C20_Original ==
  Built =>
    \A u \in Units :
      LET rs == UnitRecs(u)
          g == SortedRows(u)
      IN \A i \in 1..Len(rs) :
           rs[i].time_since_last_alarm_h =
             IF i = 1 THEN NaN
             ELSE Some(rs[i].start - g[RowsBefore(rs, i)].time)

\* C20 amended: an event interval carries null when it is the unit's first
\* interval and else the hours from the row just before its first row to its
\* start; a censored interval, first or last, carries the hours from the
\* unit's last row to now.
C20_TimeSinceLastAlarm ==
  Built =>
    \A u \in Units :
      LET rs == UnitRecs(u)
          g == SortedRows(u)
      IN \A i \in 1..Len(rs) :
           rs[i].time_since_last_alarm_h =
             IF rs[i].event = 0 THEN Some(clock - g[Len(g)].time)
             ELSE IF i = 1 THEN NaN
             ELSE Some(rs[i].start - g[RowsBefore(rs, i)].time)

\* a unit with a first event interval, a later one an hour after the
\* preceding row, and a censored tail
C20_Witness ==
  /\ Built
  /\ \E u \in Units :
       LET rs == UnitRecs(u)
       IN /\ Len(rs) = 3
          /\ rs[1].event = 1 /\ IsNull(rs[1].time_since_last_alarm_h)
          /\ rs[2].event = 1 /\ rs[2].time_since_last_alarm_h = Some(1)
          /\ rs[3].event = 0 /\ ~IsNull(rs[3].time_since_last_alarm_h)

\* C22: a failure index <= cursor emits no interval: every event interval
\* runs from the row at the cursor to a failure row after it and has
\* total_alarms = fi - cursor >= 1, also when the unit's first row fails.
C22_NoEmptyEventInterval ==
  Built =>
    \A u \in Units :
      LET rs == UnitRecs(u)
          g == SortedRows(u)
      IN \A i \in 1..Len(rs) :
           rs[i].event = 1 =>
             LET cursor == RowsBefore(rs, i)
                 fi == cursor + rs[i].total_alarms
             IN /\ rs[i].total_alarms >= 1
                /\ cursor < fi /\ fi < Len(g)
                /\ At(g, fi).is_failure_bool
                /\ rs[i].start = At(g, cursor).time
                /\ rs[i].end = At(g, fi).time

\* a unit whose first and third row fail: one event interval of two rows
C22_Witness ==
  /\ Built
  /\ \E u \in Units :
       /\ FirstRowFails(u) /\ LastRowFails(u)
       /\ RowCount(u) = 3 /\ FailureCount(u) = 2
       /\ Len(EventRecs(u)) = 1 /\ EventRecs(u)[1].total_alarms = 2

\* C26: the last interval of every unit that has a row is censored and ends
\* at now, also when the unit's last row is a failure.
C26_LastIntervalCensored ==
  Built =>
    \A u \in Units :
      RowCount(u) > 0 =>
        LET rs == UnitRecs(u)
        IN /\ rs # <<>>
           /\ rs[Len(rs)].event = 0
           /\ rs[Len(rs)].end = clock

\* a unit of two rows whose last row is a failure
C26_Witness ==
  /\ Built
  /\ \E u \in Units :
       /\ RowCount(u) = 2 /\ LastRowFails(u) /\ ~FirstRowFails(u)
       /\ Len(UnitRecs(u)) = 2
       /\ UnitRecs(u)[2].event = 0 /\ UnitRecs(u)[2].total_alarms = 1

----------------------------------------------------------------------------
(* Properties of build_intervals_with_current_time (SpecSeverity) *)

\* timestamps of the rows of a unit, and of those at or above the threshold
RowTimes(u) == {UnitRows(u)[i].time : i \in 1..RowCount(u)}

CriticalTimes(u) ==
  {UnitRows(u)[i].time :
     i \in {j \in 1..RowCount(u) : UnitRows(u)[j].sev >= SEVERITY_THRESHOLD}}

Latest(S) == CHOOSE t \in S : \A o \in S : o <= t

\* the latest critical timestamp of a unit, or, without one, the latest of all
ExpectedLastCritical(u) ==
  IF CriticalTimes(u) # {} THEN Latest(CriticalTimes(u)) ELSE Latest(RowTimes(u))

\* C21: all intervals of a unit carry the same last_critical_time, the latest
\* timestamp among its rows of severity >= the threshold or, without such a
\* row, among all its rows, and current_time_elapsed = now - last_critical_time.
C21_LastCriticalShared ==
  Built =>
    \A u \in Units :
      \A i \in 1..Len(UnitRecs(u)) :
        /\ UnitRecs(u)[i].last_critical_time = Some(ExpectedLastCritical(u))
        /\ UnitRecs(u)[i].current_time_elapsed = clock - ExpectedLastCritical(u)

\* two intervals of a unit whose latest row is below the threshold and whose
\* earlier row is critical
C21_Witness ==
  /\ Built
  /\ \E u \in Units :
       /\ Len(UnitRecs(u)) = 2
       /\ CriticalTimes(u) # {}
       /\ Latest(CriticalTimes(u)) < Latest(RowTimes(u))
       /\ UnitRecs(u)[2].last_critical_time = Some(Latest(CriticalTimes(u)))

\* the instant an interval's current_time_elapsed is measured against
ElapsedAgainst(r) == Get(r.last_critical_time) + r.current_time_elapsed

\* C23: within one call now is one instant: all censored intervals of all
\* units end at it, and every unit's current_time_elapsed is measured
\* against it.
C23_SingleNow ==
  Built =>
    \A i, j \in 1..Len(recs) :
      /\ (recs[i].event = 0 /\ recs[j].event = 0) => recs[i].end = recs[j].end
      /\ ElapsedAgainst(recs[i]) = ElapsedAgainst(recs[j])
      /\ recs[i].event = 0 => recs[i].end = ElapsedAgainst(recs[j])

\* both units have a censored interval
C23_Witness ==
  /\ Built
  /\ \A u \in Units : CensoredRecs(u) # <<>>
  /\ \A i \in 1..Len(recs) : ElapsedAgainst(recs[i]) = clock

----------------------------------------------------------------------------
(* Properties of train_rsf_model (SpecTrain) *)

Trained == pc = "trained"

TableEvents == SumSeq(Column(table.rows, "event"))

DurationsVary ==
  \E i, j \in 1..Len(table.rows) :
    table.rows[i].duration_hours # table.rows[j].duration_hours

\* non-empty, the three features present, >= 10 intervals, >= 3 events,
\* durations not all equal
Trainable ==
  /\ table.rows # <<>>
  /\ {"total_alarms", "alarms_last_24h", "time_since_last_alarm_h"}
       \subseteq table.columns
  /\ Len(table.rows) >= 10
  /\ TableEvents >= 3
  /\ DurationsVary

\* C9: train returns a model only for a trainable table; for every other
\* table it raises the validation error and returns no model.
C9_ModelOnlyIfTrainable ==
  Trained =>
    /\ Get(trainOut).kind = "return" =>
         (Trainable /\ ~IsNull(Get(trainOut).model))
    /\ ~Trainable =>
         (Get(trainOut).kind = "ValueError" /\ IsNull(Get(trainOut).model))

\* 9 intervals, 2 events and 7 censored, with all columns and varying durations
C9_Witness ==
  /\ Trained
  /\ Len(table.rows) = 9 /\ TableEvents = 2 /\ DurationsVary
  /\ FeatureSet \subseteq table.columns
  /\ Get(trainOut).kind = "ValueError"

\* what train raises for too few intervals, too few events, zero variance
InsufficientDataKinds ==
  { train_rsf_model(IntervalTable(2, 1, 3, 3, {}), FALSE).kind,
    train_rsf_model(IntervalTable(1, 1, 4, 4, {}), FALSE).kind,
    train_rsf_model(IntervalTable(3, 0, 7, 0, {}), FALSE).kind }

\* C10: the outcome of a crash of the fit itself never has the error kind of
\* an insufficient-data outcome.
C10_CrashDistinctFromInsufficient ==
  (Trained /\ Trainable /\ fitRaises) =>
    Get(trainOut).kind \notin InsufficientDataKinds

----------------------------------------------------------------------------
(* Properties of build_rsf_model in the app session (Spec) *)

\* C1: what the latest invocation returned is computed from the alarm data
\* and the clock of that invocation, never from an earlier one.
C1_LatestRunUsesLatestData ==
  pc = "returned" =>
    \E fit_raises \in BOOLEAN :
      Get(result) =
        LET df_complete == load_and_process_data(df, dfColumns)
        IN build_rsf_model_body(df_complete.rows, df_complete.columns,
                                SEVERITY_THRESHOLD, clock, fit_raises)

\* the interval table the body computes from the alarm data and the clock
ComputedIntervals ==
  DataFrame(build_intervals_with_current_time(
              WithFailureColumn(load_and_process_data(df, dfColumns).rows),
              clock, SEVERITY_THRESHOLD))

\* the step is a run of the body: nothing was cached for the key before it
BodyRan == cache = {} /\ cache' # {}

\* C11: when a run of the body has computed a non-empty interval table and
\* returns no model (training skipped or failed), it returns that table in
\* full, never an empty one.
C11_TableKeptWithoutModel ==
  [][(BodyRan /\ ~SortKeyError(load_and_process_data(df, dfColumns).columns)
        /\ ComputedIntervals.rows # <<>> /\ IsNull(Get(result').model))
       => (Get(result').kind = "return"
             /\ Get(result').intervals = ComputedIntervals)]_vars

\* ten intervals with nine events came back without a model: training failed
C11_Witness ==
  /\ pc = "returned"
  /\ IsNull(Get(result).model)
  /\ Len(Get(result).intervals.rows) >= PIPE_MIN_SAMPLES
  /\ SumSeq(Column(Get(result).intervals.rows, "event")) >= PIPE_MIN_EVENTS
  /\ Get(result).intervals = ComputedIntervals

\* C12: an error raised inside the detector or the builder reaches the caller
\* of the pipeline as an error, never as a normal return value.
C12_BuilderErrorPropagates ==
  (pc = "returned" /\ SortKeyError(load_and_process_data(df, dfColumns).columns))
    => Get(result).kind = "raise"

----------------------------------------------------------------------------
(* Properties of detect_failures (SpecDetect) *)

\* the text holds the source string of the entry, as it is written
ContainsLiteral(text, word) == Occurs(Pattern(word), text)

\* C18: a row is flagged exactly if its description contains, whatever the
\* case, a failure phrase of the list taken literally and no entry of the
\* resolution list; without a description column no row is flagged.
C18_FlagIffLiteralPhrase ==
  pc = "detected" =>
    Get(isFail) =
      (/\ hasDescCol
       /\ \E w \in FailureKeywords : ContainsLiteral(description, w)
       /\ ~\E w \in ExcludeWords : ContainsLiteral(description, w))

\* C24: the flag of a row does not depend on its severity nor on sev_thr: a
\* call on the same description with any other severity and threshold gives
\* the same flag.
C24_FlagIgnoresSeverity ==
  pc = "detected" =>
    \A sev \in Severities, sev_thr \in SevThresholds :
      detect_failures_row(description, hasDescCol, sev, sev_thr) = Get(isFail)

\* a row below the threshold is flagged
C24_Witness ==
  /\ pc = "detected"
  /\ rowSeverity < sevThr
  /\ Get(isFail) = TRUE

----------------------------------------------------------------------------
(* Properties of calculate_time_to_threshold_risk (SpecProject) *)

Projected == pc = "projected"

\* the unit has a latest interval and the forest predicts a survival function
HasCurve ==
  /\ \E i \in 1..Len(table.rows) : table.rows[i].unit = projDevice
  /\ ~rsf[projDevice].raises

CurrentTime == table.rows[Len(table.rows)].current_time_elapsed

\* max_horizon in the unit of time_to_threshold
MaxHorizon == TimeScale * MAX_TIME

SamplePoints == 0..(N_POINTS - 1)

\* the risk at the k-th sample point of [t0, t0 + max_horizon]
SampleRisk(k) ==
  RiskAt(TimePoint(CurrentTime, MAX_TIME, k), rsf[projDevice].surv_func)

AtThreshold(risk) == risk.num >= riskThreshold * risk.den

HoursToThreshold == Get(Get(projection).time_to_threshold)

ReturnedRisk == Get(Get(projection).threshold_risk)

Answered == Projected /\ ~IsNull(Get(projection).time_to_threshold)

\* C13: when hours_to_threshold < max_horizon, t0 + hours_to_threshold is a
\* sample point where the risk is >= risk_threshold, and the risk at every
\* earlier sample point is < risk_threshold.
C13_FirstPointAtThreshold ==
  (Answered /\ HoursToThreshold < MaxHorizon) =>
    LET k == HoursToThreshold \div MAX_TIME
    IN /\ HoursToThreshold = MAX_TIME * k
       /\ AtThreshold(SampleRisk(k))
       /\ \A j \in 0..(k - 1) : ~AtThreshold(SampleRisk(j))

\* the threshold is reached after the first sample point, before the last
C13_Witness ==
  /\ Answered
  /\ HoursToThreshold > 0 /\ HoursToThreshold < MaxHorizon
  /\ AtThreshold(ReturnedRisk)

\* C14: when the risk is below risk_threshold at every sample point, the
\* answer is (max_horizon, risk at t0 + max_horizon, t0), that risk is below
\* risk_threshold, and the answer is not the null triple.
C14_CappedAnswer ==
  (Projected /\ HasCurve /\ \A k \in SamplePoints : ~AtThreshold(SampleRisk(k))) =>
    /\ Answered
    /\ HoursToThreshold = MaxHorizon
    /\ FracEq(ReturnedRisk, SampleRisk(N_POINTS - 1))
    /\ ~AtThreshold(ReturnedRisk)
    /\ Get(projection).current_time = Some(CurrentTime)

\* a risk that rises over the horizon and stays below the threshold
C14_Witness ==
  /\ Answered /\ HasCurve
  /\ HoursToThreshold = MaxHorizon
  /\ ~AtThreshold(ReturnedRisk)
  /\ ~FracEq(ReturnedRisk, SampleRisk(0))

\* C15: hours_to_threshold equals max_horizon exactly when the threshold was
\* reached at no sample point, that is when the returned risk is below it.
C15_CappedIffNotReached ==
  (Answered /\ HasCurve) =>
    /\ (HoursToThreshold = MaxHorizon) <=> ~AtThreshold(ReturnedRisk)
    /\ (HoursToThreshold = MaxHorizon)
         <=> (\A k \in SamplePoints : ~AtThreshold(SampleRisk(k)))

\* C17: over the sample points, in order, the risk never decreases.
C17_RiskNonDecreasing ==
  (Projected /\ HasCurve) =>
    \A k \in 0..(N_POINTS - 2) : FracLeq(SampleRisk(k), SampleRisk(k + 1))

\* the horizon runs past the last knot and the risk rises on the way
C17_Witness ==
  /\ Projected /\ HasCurve
  /\ LET x == rsf[projDevice].surv_func.x
     IN CurrentTime + MAX_TIME > x[Len(x)] /\ CurrentTime < x[Len(x)]
  /\ ~FracLeq(SampleRisk(N_POINTS - 1), SampleRisk(0))

----------------------------------------------------------------------------
(* Properties of the passes over the devices (SpecPass) *)

\* C16: a pass of render_tab1, render_tab3 or predict_failure_risk_curves
\* never aborts on a unit whose prediction fails: it goes through every unit
\* of the list, and such a unit is only left out, with the null triple.
C16_FailureSkipsOnlyThatUnit ==
  /\ pc # "passAborted"
  /\ pc = "passDone" =>
       /\ Len(visited) = Len(devices)
       /\ \A i \in 1..Len(devices) :
            /\ visited[i].unit = devices[i]
            /\ rsf[devices[i]].raises =>
                 (visited[i].triple = NullTriple /\ ~visited[i].listed)

\* C25: the answer is all null or all non-null; it is all null when the unit
\* has no interval or the prediction fails; when it is not, 0 <=
\* hours_to_threshold <= max_horizon and the third component is the latest
\* interval's current_time_elapsed.
C25_AllOrNothing ==
  Projected =>
    LET t == Get(projection)
        nulls == {IsNull(t.time_to_threshold), IsNull(t.threshold_risk),
                  IsNull(t.current_time)}
    IN /\ Cardinality(nulls) = 1
       /\ ~HasCurve => nulls = {TRUE}
       /\ nulls = {FALSE} =>
            /\ 0 <= HoursToThreshold /\ HoursToThreshold <= MaxHorizon
            /\ t.current_time = Some(CurrentTime)

\* the unit has a latest interval and its prediction fails
C25_Witness ==
  /\ Projected
  /\ \E i \in 1..Len(table.rows) : table.rows[i].unit = projDevice
  /\ rsf[projDevice].raises
  /\ IsNull(Get(projection).time_to_threshold)

\* the unit has a latest interval, a prediction, and its risk at t0 is at or
\* above the threshold already
MeetsThresholdNow(u) ==
  /\ \E i \in 1..Len(table.rows) : table.rows[i].unit = u
  /\ ~rsf[u].raises
  /\ LET own == SelectSeq(table.rows, LAMBDA r : r.unit = u)
         t0 == own[Len(own)].current_time_elapsed
     IN AtThreshold(RiskAt(TimeScale * t0, rsf[u].surv_func))

TabPass == passName \in {"render_tab1", "render_tab3"}

\* C27: hours_to_threshold is 0 exactly when the risk at t0 is at or above
\* the threshold already; render_tab1 and render_tab3 list a unit only if its
\* hours_to_threshold is there and > 0, so such a unit is never listed.
C27_AtThresholdNeverListed ==
  TabPass =>
    \A i \in 1..Len(visited) :
      ~visited[i].aborted =>
        /\ (visited[i].triple.time_to_threshold = Some(0))
             <=> MeetsThresholdNow(visited[i].unit)
        /\ visited[i].listed =>
             /\ ~IsNull(visited[i].triple.time_to_threshold)
             /\ Get(visited[i].triple.time_to_threshold) > 0
        /\ MeetsThresholdNow(visited[i].unit) => ~visited[i].listed

\* a tab went through a unit that is at the threshold, and left it out
C27_Witness ==
  /\ TabPass /\ pc = "passDone"
  /\ \E i \in 1..Len(visited) :
       /\ MeetsThresholdNow(visited[i].unit)
       /\ visited[i].triple.time_to_threshold = Some(0)
       /\ ~visited[i].listed

----------------------------------------------------------------------------
(* Properties of the tuple build_rsf_model returns (Spec) *)

\* C28: in every result the model is null exactly if the features are, and a
\* model comes with a table of at least 10 intervals, at least 3 of them
\* events.
C28_ModelWithFeaturesAndData ==
  pc = "returned" =>
    LET r == Get(result)
    IN /\ IsNull(r.model) <=> IsNull(r.features)
       /\ ~IsNull(r.model) =>
            /\ Len(r.intervals.rows) >= 10
            /\ SumSeq(Column(r.intervals.rows, "event")) >= 3

\* a model was trained
C28_Witness ==
  /\ pc = "returned"
  /\ ~IsNull(Get(result).model)
  /\ Get(result).features = Some(FEATURES)
  /\ Len(Get(result).intervals.rows) >= 10


----------------------------------------------------------------------------
(* Properties of the login session (SpecAuth) *)

\* the typed credentials are those of a user of USERS
GoodCredentials ==
  /\ inputUser \in {"admin", "EAFIT", "UNICAUCA"}
  /\ inputPass = USERS[inputUser].password

\* an authenticated session names a user of USERS and holds their record
SessionNamesUser ==
  session_state.authenticated =>
    \E u \in {"admin", "EAFIT", "UNICAUCA"} :
      /\ session_state.username = Some(u)
      /\ session_state.user_info = Some(USERS[u])

\* C29: in every session state, authenticated = true implies that username
\* is a key of USERS and user_info is that user's record; a failed login
\* leaves authenticated, username and user_info as they were; a logout
\* resets all three; render_authenticated_interface runs only when
\* authenticated = true
C29_SessionConsistent ==
  [][/\ SessionNamesUser /\ SessionNamesUser'
     /\ (lastEvent' = "login_btn" /\ ~GoodCredentials)
          => session_state' = session_state
     /\ lastEvent' = "logout_btn"
          => /\ session_state'.authenticated = FALSE
             /\ session_state'.username = None
             /\ session_state'.user_info = None
     /\ interface' = "render_authenticated_interface"
          => session_state'.authenticated = TRUE]_vars

\* the login button logged a user in, and the page is the authenticated one
C29_Witness ==
  /\ lastEvent = "login_btn"
  /\ session_state.authenticated = TRUE
  /\ session_state.username = Some("UNICAUCA")
  /\ session_state.user_info = Some(USERS["UNICAUCA"])
  /\ interface = "render_authenticated_interface"

----------------------------------------------------------------------------
(* Properties of CRMClient.get_equipos_info (SpecCrm) *)

\* positions of the log with the operation
Positions(log, op) == {i \in 1..Len(log) : log[i].op = op}

\* the stored token is there and more than the margin away from its expiry
StoredTokenUsable ==
  /\ crm.access_token # None /\ crm.token_expiry # None
  /\ crmTime + 300 < crm.token_expiry[1]

\* the last token request of the call failed
TokenRequestFailed(log) ==
  /\ Positions(log, "POST token_url") # {}
  /\ LET last == CHOOSE i \in Positions(log, "POST token_url") :
                   \A j \in Positions(log, "POST token_url") : j <= i
     IN log[last].outcome \in {"401", "exception"}

\* C30: get_equipos_info sends the equipment query only after
\* ensure_valid_token returned true in the same call; a stored token that is
\* missing or within 300 seconds of its expiry makes the call request a new
\* token first; if that request fails the call returns None and sends no
\* query
C30_QueryOnlyWithToken ==
  [][crmTime' = crmTime =>
       /\ \A q \in Positions(crmLog', "POST equipos_url") :
            \E e \in Positions(crmLog', "ensure_valid_token") :
              e < q /\ crmLog'[e].outcome = "True"
       /\ ~StoredTokenUsable
            => /\ crmLog' # <<>>
               /\ crmLog'[1].op = "POST token_url"
       /\ TokenRequestFailed(crmLog')
            => /\ crmReturn' = None
               /\ Positions(crmLog', "POST equipos_url") = {}]_vars

\* a stored token within the margin of its expiry, the request of a new one
\* failed, and the call returned None without a query
C30_Witness ==
  /\ crm.access_token # None /\ crm.token_expiry # None
  /\ crmTime < crm.token_expiry[1]
  /\ crmTime + 300 >= crm.token_expiry[1]
  /\ crmLog = <<Entry("POST token_url", "401"),
                Entry("ensure_valid_token", "False")>>
  /\ crmReturn = None

====
